---------------------------- MODULE Spec2Model ----------------------------
(***************************************************************************)
(* A model of the .skr domain scout: the adaptive search strategy engine,  *)
(* the continuous-scout scheduler of ScoutAgent, and the checkpointing     *)
(* record store of DataScout.                                              *)
(*                                                                         *)
(* Representation.  A query string is a sequence of its space-separated    *)
(* words, so `${q} wallet` is Append(q, "wallet") and `new ${q}` is        *)
(* <<"new">> \o q; two query strings are equal exactly when their word     *)
(* sequences are.  A Date is its time value, counted in hours of an        *)
(* abstract clock; a JS Map is the sequence of its [key, value] entries in *)
(* insertion order.                                                        *)
(***************************************************************************)
EXTENDS Integers, Sequences, FiniteSets, TLC

VARIABLES
    searchContext,    \* AdaptiveSearchStrategy.searchContext
    metrics,          \* AdaptiveSearchStrategy.metrics
    now,              \* the wall clock, in hours
    callPrev,         \* previousQueries when the last getNextSearchQueries began
    callCtx,          \* searchContext when that call selected its strategy
    lastStrategy,     \* the strategy that call selected ("none" before any call)
    lastBatch,        \* the batch that call returned
    cursor,           \* runScoutCycle's position in the batch (next query to record)
    calls,            \* number of getNextSearchQueries calls so far
    adaptiveFile,     \* adaptive_state.json: whether it exists, and its JSON document
    savedState,       \* the in-memory state that adaptiveFile was written from
    saves,            \* number of checkpoints written so far
    justLoaded,       \* TRUE right after a restart that loaded adaptiveFile
    \* ScoutAgent
    isRunning,        \* ScoutAgent.isRunning
    intervalId,       \* ScoutAgent.intervalId: 0 for null, else a timer's id
    timers,           \* ids of the repeating timers that are active
    nextTimer,        \* the id the next setInterval returns
    cycles,           \* the runScout cycles in flight, oldest first
    starts,           \* startContinuousScout calls so far
    triggers,         \* timer triggers so far
    lastEvent,        \* the handler that ran last
    hadError,         \* a cycle of the current run has ended with an error
    \* DataScout
    scoutedData,      \* DataScout.scoutedData
    processedUsers,   \* DataScout.processedUsers
    progress,         \* DataScout.progress (errors as their number)
    dataFile,         \* scouted_data.json: whether it exists, and its records
    progressFile,     \* progress.json: whether it exists, and its counters
    fileStamp,        \* for each checkpoint file, the saveData call that wrote it last
    saveSeq,          \* saveData calls so far
    storeOps,         \* DataScout handler calls so far
    lastOp,           \* the DataScout handler that ran last
    lastCall,         \* what that handler call did (see noCall)
    \* SkrDomainScanner
    lastIndex,        \* domainPattern.lastIndex
    scanCall,         \* the scanner method that ran last, its input and its result
    \* TwitterClient
    requestCount,     \* TwitterClient.requestCount
    lastRequestTime,  \* TwitterClient.lastRequestTime, in milliseconds
    clock,            \* Date.now(), in milliseconds
    proceeded,        \* the times at which rateLimit returned in the last 60 seconds,
                      \* each with the number of calls that returned then
    \* callers of recordQueryResult other than runScoutCycle
    recorded,         \* for each query, the result count it was recorded with last
    \* ScoutAgent.scoutRegisteredDomains
    domainFile,       \* solana_domains.json: whether it exists, and its mtime
    minute,           \* Date.now(), in minutes
    lastScout         \* what the last scoutRegisteredDomains call did

engineVars == <<searchContext, metrics, now, callPrev, callCtx, lastStrategy,
                lastBatch, cursor, calls, adaptiveFile, savedState, saves,
                justLoaded>>

schedVars == <<isRunning, intervalId, timers, nextTimer, cycles, starts, triggers,
               lastEvent, hadError>>

storeVars == <<scoutedData, processedUsers, progress, dataFile, progressFile,
               fileStamp, saveSeq, storeOps, lastOp, lastCall>>

scanVars == <<lastIndex, scanCall>>

rateVars == <<requestCount, lastRequestTime, clock, proceeded>>

recordVars == <<recorded>>

cacheVars == <<domainFile, minute, lastScout>>

vars == <<engineVars, schedVars, storeVars, scanVars, rateVars, recordVars, cacheVars>>

-----------------------------------------------------------------------------
(* Bounds of the exploration *)

MaxCalls == 3          \* getNextSearchQueries calls explored
MaxCkptCalls == 1      \* the same, where checkpoints and restarts are explored too
MaxApiCalls == 2       \* the same, where queries that were never issued are recorded too
MaxGenCalls == 3       \* the same, for the engine that delegates to LocalIntelligentGenerator
MaxSaves == 1          \* checkpoints written in one exploration
MaxStarts == 2         \* startContinuousScout calls explored
MaxTriggers == 3       \* timer triggers explored
CycleQueries == 2      \* search queries one scout cycle issues
MaxStoreOps == 2       \* DataScout handler calls explored
MaxMentions == 3       \* mentions in a list handed to deduplicateMentions
MaxElapsed == 120000   \* milliseconds of the clock explored for rateLimit
MaxMinutes == 12       \* minutes of the clock explored for scoutRegisteredDomains

Usernames == {"alice", "bob"}
\* Mentions as scanMultipleTweets returns them, one per tweet; a timestamp is the
\* rank of its string in the string order, 0 for the empty string.
Mention(u, d, id, ts) == [username |-> u, domain |-> d, tweetId |-> id, timestamp |-> ts]
\* what one search, or one user's timeline, returns
ResultLists ==
    { << Mention("alice", "a.skr", "t1", 1) >>,
      << Mention("alice", "a.skr", "t1", 1), Mention("alice", "a.skr", "t2", 2) >>,
      << Mention("bob", "b.skr", "t3", 1), Mention("alice", "a.skr", "t1", 1) >> }
\* the users the lookup collaborator finds
LookupWorlds == { Usernames, {"alice"} }
\* how a cycle's searches go: the query that returns mentions, the query whose
\* first search call fails, and whether the mentions come on a page of their own
\* or on a full page after which the next call fails
SearchScenarios == { <<"none", "none", "single">>, <<"none", "first", "single">>,
                     <<"first", "none", "single">>, <<"last", "first", "single">>,
                     <<"first", "none", "secondFails">> }
\* where a saveData call fails, if it does
FailPoints == {"none", "data", "csv", "progress", "adaptive"}
StartHour == 9         \* hour of day at which the process is constructed

\* null, a Date with time value t, and the ISO string JSON makes of that Date
Null == [kind |-> "null"]
Date(t) == [kind |-> "Date", time |-> t]
IsoString(t) == [kind |-> "string", iso |-> t]
\* result counts a search returns for one query
Yields == {0, 2}
Domains == {"wallet.skr", "dev.skr"}
\* mention batches handed to getNextSearchQueries (only their domains matter)
MentionInputs ==
    { <<>>,
      <<"wallet.skr", "dev.skr", "wallet.skr", "dev.skr", "wallet.skr", "dev.skr">> }
\* hours that pass before a call
Advances == {1, 5}

-----------------------------------------------------------------------------
(* Array helpers *)

Min(a, b) == IF a < b THEN a ELSE b
Max(a, b) == IF a > b THEN a ELSE b

\* Array.prototype.includes
includes(arr, x) == \E i \in 1..Len(arr) : arr[i] = x

occurrences(arr, x) == Cardinality({ i \in 1..Len(arr) : arr[i] = x })

\* arr.slice(0, n)
sliceFirst(arr, n) == SubSeq(arr, 1, Min(n, Len(arr)))

\* arr.slice(-n)
sliceLast(arr, n) == SubSeq(arr, Max(1, Len(arr) - n + 1), Len(arr))

\* Map.prototype.get(key) || 0
mapGet(map, key) ==
    IF \E i \in 1..Len(map) : map[i][1] = key
    THEN map[CHOOSE i \in 1..Len(map) : map[i][1] = key][2]
    ELSE 0

\* Map.prototype.set: an existing key keeps its place, a new key goes last
mapSet(map, key, value) ==
    IF \E i \in 1..Len(map) : map[i][1] = key
    THEN [i \in 1..Len(map) |-> IF map[i][1] = key THEN <<key, value>> ELSE map[i]]
    ELSE Append(map, <<key, value>>)

\* new Map(entries)
RECURSIVE mapFromEntries(_)
mapFromEntries(entries) ==
    IF entries = <<>> THEN <<>>
    ELSE LET e == entries[Len(entries)]
         IN mapSet(mapFromEntries(SubSeq(entries, 1, Len(entries) - 1)), e[1], e[2])

-----------------------------------------------------------------------------
(* The query templates *)

diversifyQueries ==
    << <<"bought", "my", ".skr">>,
       <<"set", "up", ".skr">>,
       <<"minting", "with", ".skr">>,
       <<".skr", "address", "book">>,
       <<"DeFi", ".skr", "wallet">>,
       <<"trading", "via", ".skr">>,
       <<".skr", "mobile", "payments">>,
       <<"secured", ".skr", "domain">>,
       <<"crypto", ".skr", "username">>,
       <<"blockchain", ".skr", "identity">> >>

balancedQueries ==
    << <<"solana", "mobile", ".skr">>,
       <<".skr", "wallet", "setup">>,
       <<"registered", ".skr", "domain">>,
       <<"claiming", ".skr">>,
       <<"my", "new", ".skr">>,
       <<".skr", "blockchain">> >>

\* the three queries getExploitationQueries falls back to
exploitFallbackQueries ==
    << <<"solana", "mobile", ".skr">>,
       <<".skr", "wallet", "setup">>,
       <<"registered", ".skr", "domain">> >>

\* query.includes('.skr'): among the words of this model only ".skr" holds it
includesSkr(query) == includes(query, ".skr")

BatchSize == 6
RecentWindow == 10
\* scoutFromSearch asks for pages of 20 tweets, up to maxResults
PageSize == 20
CycleMaxResults == 50
DomainMaxResults == 30

-----------------------------------------------------------------------------
(* AdaptiveSearchStrategy *)

\* the constructor's searchContext, built at clock value t
initialContext(t) ==
    [ previousQueries        |-> <<>>,
      foundDomains           |-> <<>>,
      successfulQueries      |-> <<>>,
      failedQueries          |-> <<>>,
      totalResults           |-> 0,
      currentHour            |-> t % 24,
      lastSuccessfulSearch   |-> Null,
      averageResultsPerQuery |-> <<0, 1>> ]

initialMetrics == [ queryPerformance |-> <<>>, domainPopularity |-> <<>> ]

\* the forEach of updateContext over the mentions' domains
RECURSIVE foldFoundDomains(_, _)
foldFoundDomains(found, mentions) ==
    IF mentions = <<>> THEN found
    ELSE foldFoundDomains(
             IF includes(found, Head(mentions)) THEN found
             ELSE Append(found, Head(mentions)),
             Tail(mentions))

RECURSIVE foldDomainPopularity(_, _)
foldDomainPopularity(pop, mentions) ==
    IF mentions = <<>> THEN pop
    ELSE foldDomainPopularity(
             mapSet(pop, Head(mentions), mapGet(pop, Head(mentions)) + 1),
             Tail(mentions))

\* updateContext(mentions) at clock value t; a quotient a/b is kept as <<a, b>>
updateContext(ctx, mentions, t) ==
    LET total == ctx.totalResults + Len(mentions)
        totalQueries == Len(ctx.previousQueries)
    IN [ ctx EXCEPT
           !.currentHour = t % 24,
           !.totalResults = total,
           !.lastSuccessfulSearch = IF Len(mentions) > 0 THEN Date(t) ELSE @,
           !.foundDomains = foldFoundDomains(@, mentions),
           !.averageResultsPerQuery =
               IF totalQueries > 0 THEN <<total, totalQueries>> ELSE <<0, 1>> ]

updateMetrics(met, mentions) ==
    [ met EXCEPT !.domainPopularity = foldDomainPopularity(@, mentions) ]

\* calculateRecentSuccessRate: the quotient successes/recent as <<s, n>>, 0 as <<0, 1>>
calculateRecentSuccessRate(ctx) ==
    LET recentQueries == sliceLast(ctx.previousQueries, RecentWindow)
        recentSuccessful ==
            SelectSeq(recentQueries, LAMBDA q : includes(ctx.successfulQueries, q))
    IN IF Len(recentQueries) > 0
       THEN <<Len(recentSuccessful), Len(recentQueries)>>
       ELSE <<0, 1>>

\* rate > n/d and rate < n/d for a quotient rate = <<a, b>>, b > 0, d > 0
rateGT(rate, n, d) == rate[1] * d > n * rate[2]
rateLT(rate, n, d) == rate[1] * d < n * rate[2]

determineSearchStrategy_HighBar(ctx) ==
    LET recentSuccessRate == calculateRecentSuccessRate(ctx)
    IN IF rateGT(recentSuccessRate, 8, 10) /\ ctx.totalResults > 10 THEN "exploit"
       ELSE IF rateLT(recentSuccessRate, 3, 10) THEN "diversify"
       ELSE "balanced"

determineSearchStrategy(ctx) ==
    LET recentSuccessRate == calculateRecentSuccessRate(ctx)
    IN IF rateGT(recentSuccessRate, 6, 10) /\ ctx.totalResults > 10 THEN "exploit"
       ELSE IF rateLT(recentSuccessRate, 3, 10) THEN "diversify"
       ELSE "balanced"

filterUsedQueries_KeepAll(ctx, queries) == queries

filterUsedQueries(ctx, queries) ==
    SelectSeq(queries, LAMBDA q : ~includes(ctx.previousQueries, q))

getDiversificationQueries_Fallback(ctx) ==
    LET filteredQueries == filterUsedQueries(ctx, diversifyQueries)
    IN IF filteredQueries = <<>>
       THEN sliceFirst(filterUsedQueries(ctx, balancedQueries), BatchSize)
       ELSE sliceFirst(filteredQueries, BatchSize)

getDiversificationQueries(ctx) ==
    sliceFirst(filterUsedQueries(ctx, diversifyQueries), BatchSize)

\* the variations pushed for the queries of successfulQueries.slice(0, 3)
RECURSIVE exploitVariations_WalletTwice(_)
exploitVariations_WalletTwice(queries) ==
    IF queries = <<>> THEN <<>>
    ELSE LET query == Head(queries)
         IN (IF includesSkr(query)
             THEN << Append(query, "wallet"), Append(query, "wallet"), <<"new">> \o query >>
             ELSE <<>>) \o exploitVariations_WalletTwice(Tail(queries))

RECURSIVE exploitVariations(_)
exploitVariations(queries) ==
    IF queries = <<>> THEN <<>>
    ELSE LET query == Head(queries)
         IN (IF includesSkr(query)
             THEN << Append(query, "wallet"), Append(query, "domain"), <<"new">> \o query >>
             ELSE <<>>) \o exploitVariations(Tail(queries))

\* the candidate list of getExploitationQueries, before filtering
exploitCandidates(ctx) ==
    LET exploitQueries == exploitVariations(sliceFirst(ctx.successfulQueries, 3))
    IN IF Len(exploitQueries) = 0 THEN exploitFallbackQueries ELSE exploitQueries

getExploitationQueries_Unsliced(ctx) ==
    filterUsedQueries(ctx, exploitCandidates(ctx))

getExploitationQueries(ctx) ==
    sliceFirst(filterUsedQueries(ctx, exploitCandidates(ctx)), BatchSize)

getBalancedQueries(ctx) == filterUsedQueries(ctx, balancedQueries)

\* the list a strategy filters: its templates, or exploit's derived variations
candidatesFor(strategy, ctx) ==
    CASE strategy = "diversify" -> diversifyQueries
      [] strategy = "exploit"   -> exploitCandidates(ctx)
      [] OTHER                  -> balancedQueries

\* the switch of getNextSearchQueries
queriesFor(strategy, ctx) ==
    CASE strategy = "diversify" -> getDiversificationQueries(ctx)
      [] strategy = "exploit"   -> getExploitationQueries(ctx)
      [] OTHER                  -> getBalancedQueries(ctx)

\* recordQueryResult(query, resultCount)
recordContext_AlwaysPush(ctx, query, resultCount) ==
    IF resultCount > 0
    THEN [ ctx EXCEPT !.successfulQueries = Append(@, query) ]
    ELSE [ ctx EXCEPT !.failedQueries = Append(@, query) ]

recordContext(ctx, query, resultCount) ==
    IF resultCount > 0
    THEN [ ctx EXCEPT !.successfulQueries =
               IF includes(@, query) THEN @ ELSE Append(@, query) ]
    ELSE [ ctx EXCEPT !.failedQueries =
               IF includes(@, query) THEN @ ELSE Append(@, query) ]

recordMetrics(met, query, resultCount) ==
    [ met EXCEPT !.queryPerformance = mapSet(@, query, resultCount) ]

\* saveState(): the maps become arrays of their entries
saveState(ctx, met) ==
    [ searchContext |-> ctx,
      metrics |-> [ queryPerformance |-> met.queryPerformance,
                    domainPopularity |-> met.domainPopularity ] ]

\* JSON.stringify followed by JSON.parse: a Date comes back as its ISO string,
\* everything else (strings, numbers, null, arrays) as itself
jsonRoundTrip(state) ==
    [ state EXCEPT !.searchContext.lastSuccessfulSearch =
          IF @.kind = "Date" THEN IsoString(@.time) ELSE @ ]

\* new Date(value) of an ISO string (or of a Date)
newDate(value) == IF value.kind = "string" THEN Date(value.iso) ELSE value

loadState_NoDateParse(state) ==
    [ searchContext |-> state.searchContext,
      metrics |-> [ queryPerformance |-> mapFromEntries(state.metrics.queryPerformance),
                    domainPopularity |-> mapFromEntries(state.metrics.domainPopularity) ] ]

\* loadState(state), for a state holding searchContext and metrics
loadState(state) ==
    [ searchContext |->
          [ state.searchContext EXCEPT !.lastSuccessfulSearch =
                IF @.kind # "null" THEN newDate(@) ELSE @ ],
      metrics |-> [ queryPerformance |-> mapFromEntries(state.metrics.queryPerformance),
                    domainPopularity |-> mapFromEntries(state.metrics.domainPopularity) ] ]

-----------------------------------------------------------------------------
(* The strategy engine as driven by runScoutCycle and by checkpoints *)

EngineInit ==
    /\ searchContext = initialContext(StartHour)
    /\ metrics = initialMetrics
    /\ now = StartHour
    /\ callPrev = <<>>
    /\ callCtx = initialContext(StartHour)
    /\ lastStrategy = "none"
    /\ lastBatch = <<>>
    /\ cursor = 1
    /\ calls = 0
    /\ adaptiveFile = [exists |-> FALSE]
    /\ savedState = <<>>
    /\ saves = 0
    /\ justLoaded = FALSE

\* getNextSearchQueries(mentions), called once the previous batch is recorded
GetNextSearchQueries(limit) ==
    /\ calls < limit
    /\ cursor > Len(lastBatch)
    /\ \E mentions \in MentionInputs, adv \in Advances :
         LET t == now + adv
             ctx == updateContext(searchContext, mentions, t)
             strategy == determineSearchStrategy(ctx)
             batch == queriesFor(strategy, ctx)
         IN /\ now' = t
            /\ callPrev' = searchContext.previousQueries
            /\ callCtx' = ctx
            /\ lastStrategy' = strategy
            /\ lastBatch' = batch
            /\ searchContext' = [ ctx EXCEPT !.previousQueries = @ \o batch ]
            /\ metrics' = updateMetrics(metrics, mentions)
    /\ cursor' = 1
    /\ calls' = calls + 1
    /\ justLoaded' = FALSE
    /\ UNCHANGED <<adaptiveFile, savedState, saves>>
    /\ UNCHANGED <<schedVars, storeVars, scanVars, rateVars, recordVars, cacheVars>>

\* The search outcomes explored: in one batch the productive queries come first.
productiveSoFar ==
    \A i \in 1..(cursor - 1) : includes(searchContext.successfulQueries, lastBatch[i])

\* recordQueryResult for the next query of the batch, as runScoutCycle calls it
RecordQueryResult ==
    /\ cursor <= Len(lastBatch)
    /\ \E resultCount \in Yields :
         /\ resultCount > 0 => productiveSoFar
         /\ searchContext' = recordContext(searchContext, lastBatch[cursor], resultCount)
         /\ metrics' = recordMetrics(metrics, lastBatch[cursor], resultCount)
    /\ cursor' = cursor + 1
    /\ justLoaded' = FALSE
    /\ UNCHANGED <<now, callPrev, callCtx, lastStrategy, lastBatch, calls,
                   adaptiveFile, savedState, saves>>
    /\ UNCHANGED <<schedVars, storeVars, scanVars, rateVars, recordVars, cacheVars>>

\* saveAdaptiveState(): adaptive_state.json := JSON.stringify(saveState())
SaveAdaptiveState ==
    /\ saves < MaxSaves
    /\ saves' = saves + 1
    /\ adaptiveFile' = [exists |-> TRUE, state |-> saveState(searchContext, metrics)]
    /\ savedState' = <<searchContext, metrics>>
    /\ justLoaded' = FALSE
    /\ UNCHANGED <<searchContext, metrics, now, callPrev, callCtx, lastStrategy,
                   lastBatch, cursor, calls>>
    /\ UNCHANGED <<schedVars, storeVars, scanVars, rateVars, recordVars, cacheVars>>

\* a new process: the constructor, then loadAdaptiveState()
LoadAdaptiveState ==
    /\ adaptiveFile.exists
    /\ LET loaded == loadState(jsonRoundTrip(adaptiveFile.state))
       IN /\ searchContext' = loaded.searchContext
          /\ metrics' = loaded.metrics
          /\ callPrev' = loaded.searchContext.previousQueries
          /\ callCtx' = loaded.searchContext
    /\ lastStrategy' = "none"
    /\ lastBatch' = <<>>
    /\ cursor' = 1
    /\ justLoaded' = TRUE
    /\ UNCHANGED <<now, calls, adaptiveFile, savedState, saves>>
    /\ UNCHANGED <<schedVars, storeVars, scanVars, rateVars, recordVars, cacheVars>>

-----------------------------------------------------------------------------
(* SkrDomainScanner.deduplicateMentions *)

\* the usernames and domains of the mentions explored: those of the record store,
\* and a pair of each in which an underscore occurs
MentionUsernames == Usernames \cup {"a", "a_b"}
MentionDomains == {"a.skr", "b.skr", "c.skr", "b_c.skr"}

\* `${mention.username}_${mention.domain}` for the usernames and domains explored
keyOf == [ u \in MentionUsernames, d \in MentionDomains |-> u \o "_" \o d ]

dedupKey(mention) == keyOf[mention.username, mention.domain]

RECURSIVE dedupFold(_, _)
dedupFold(uniqueMap, mentions) ==
    IF mentions = <<>> THEN uniqueMap
    ELSE LET mention == Head(mentions)
             key == dedupKey(mention)
             has == \E i \in 1..Len(uniqueMap) : uniqueMap[i][1] = key
             existing == uniqueMap[CHOOSE i \in 1..Len(uniqueMap) : uniqueMap[i][1] = key][2]
         IN dedupFold(
                IF ~has THEN mapSet(uniqueMap, key, mention)
                ELSE IF existing.timestamp = 0 \/ mention.timestamp > existing.timestamp
                     THEN mapSet(uniqueMap, key, mention)
                     ELSE uniqueMap,
                Tail(mentions))

deduplicateMentions(mentions) ==
    LET uniqueMap == dedupFold(<<>>, mentions)
    IN [ i \in 1..Len(uniqueMap) |-> uniqueMap[i][2] ]

-----------------------------------------------------------------------------
(* DataScout *)

initialProgress == [totalScanned |-> 0, domainsFound |-> 0, usersProcessed |-> 0, errors |-> 0]

Files == {"data", "csv", "progress", "adaptive"}

\* the in-memory state the handlers below pass along, with the trace of what
\* enrichWithUserData did for each mention
Mem(data, users, prog) ==
    [scoutedData |-> data, processedUsers |-> users, progress |-> prog, trace |-> <<>>]

\* what is known of the last handler call: the mentions it handed to
\* enrichWithUserData and the users the lookup found, the trace of that call, the
\* state before it, the searches and recordings of a cycle in order, where
\* saveData failed, how often it was called, and how the call ended
noCall ==
    [ enriching |-> FALSE, mentions |-> <<>>, found |-> {}, trace |-> <<>>,
      before |-> Mem(<<>>, {}, initialProgress), log |-> <<>>, queries |-> <<>>,
      failAt |-> "none", writes |-> 0, outcome |-> "none" ]

StoreInit ==
    /\ scoutedData = <<>>
    /\ processedUsers = {}
    /\ progress = initialProgress
    /\ dataFile = [exists |-> FALSE]
    /\ progressFile = [exists |-> FALSE]
    /\ fileStamp = [f \in Files |-> 0]
    /\ saveSeq = 0
    /\ storeOps = 0
    /\ lastOp = "none"
    /\ lastCall = noCall

\* the record enrichWithUserData builds from a mention and the user's details
scoutedItem(mention) ==
    [domain |-> mention.domain, username |-> mention.username,
     tweetId |-> mention.tweetId, timestamp |-> mention.timestamp]

traceEntry(mention, lookups, outcome) ==
    [mention |-> mention, lookups |-> lookups, outcome |-> outcome]

RECURSIVE enrichWithUserData_StopAtFailure(_, _, _)
enrichWithUserData_StopAtFailure(mem, mentions, found) ==
    IF mentions = <<>> THEN mem
    ELSE LET mention == Head(mentions)
             existing ==
                 /\ mention.username \in mem.processedUsers
                 /\ \E i \in 1..Len(mem.scoutedData) :
                        /\ mem.scoutedData[i].username = mention.username
                        /\ mem.scoutedData[i].domain = mention.domain
         IN IF existing
            THEN enrichWithUserData_StopAtFailure(
                     [ mem EXCEPT !.trace = Append(@, traceEntry(mention, 0, "reused")) ],
                     Tail(mentions), found)
            ELSE IF mention.username \in found
            THEN enrichWithUserData_StopAtFailure(
                     [ mem EXCEPT
                         !.scoutedData = Append(@, scoutedItem(mention)),
                         !.processedUsers = @ \cup {mention.username},
                         !.progress = [ @ EXCEPT !.usersProcessed = @ + 1,
                                                 !.domainsFound = @ + 1 ],
                         !.trace = Append(@, traceEntry(mention, 1, "added")) ],
                     Tail(mentions), found)
            ELSE [ mem EXCEPT !.trace = Append(@, traceEntry(mention, 1, "skipped")) ]

\* enrichWithUserData(mentions), where getUserDetails finds the users in `found`
\* and returns null for the others
RECURSIVE enrichWithUserData(_, _, _)
enrichWithUserData(mem, mentions, found) ==
    IF mentions = <<>> THEN mem
    ELSE LET mention == Head(mentions)
             existing ==
                 /\ mention.username \in mem.processedUsers
                 /\ \E i \in 1..Len(mem.scoutedData) :
                        /\ mem.scoutedData[i].username = mention.username
                        /\ mem.scoutedData[i].domain = mention.domain
         IN enrichWithUserData(
                IF existing
                THEN [ mem EXCEPT !.trace = Append(@, traceEntry(mention, 0, "reused")) ]
                ELSE IF mention.username \in found
                THEN [ mem EXCEPT
                         !.scoutedData = Append(@, scoutedItem(mention)),
                         !.processedUsers = @ \cup {mention.username},
                         !.progress = [ @ EXCEPT !.usersProcessed = @ + 1,
                                                 !.domainsFound = @ + 1 ],
                         !.trace = Append(@, traceEntry(mention, 1, "added")) ]
                ELSE [ mem EXCEPT !.trace = Append(@, traceEntry(mention, 1, "skipped")) ],
                Tail(mentions), found)

\* the checkpoint files saveData has written when it fails at failAt: it writes
\* scouted_data.json, the CSV mirror, progress.json and adaptive_state.json in turn
writtenBefore(failAt) ==
    CASE failAt = "data"     -> {}
      [] failAt = "csv"      -> {"data"}
      [] failAt = "progress" -> {"data", "csv"}
      [] failAt = "adaptive" -> {"data", "csv", "progress"}
      [] OTHER               -> Files

\* saveData() of the state mem and the strategy state, failing at failAt; a failure
\* before adaptive_state.json is caught and counted in progress.errors, a failure
\* of adaptive_state.json is caught in saveAdaptiveState and only logged
SaveData(mem, ctx, met, failAt) ==
    LET written == writtenBefore(failAt)
    IN /\ dataFile' = IF "data" \in written
                      THEN [exists |-> TRUE, records |-> mem.scoutedData]
                      ELSE dataFile
       /\ progressFile' = IF "progress" \in written
                          THEN [exists |-> TRUE, progress |-> mem.progress]
                          ELSE progressFile
       /\ adaptiveFile' = IF "adaptive" \in written
                          THEN [exists |-> TRUE, state |-> saveState(ctx, met)]
                          ELSE adaptiveFile
       /\ savedState' = IF "adaptive" \in written THEN <<ctx, met>> ELSE savedState
       /\ saveSeq' = saveSeq + 1
       /\ fileStamp' = [ f \in Files |->
                           IF f \in written THEN saveSeq + 1 ELSE fileStamp[f] ]
       /\ progress' = IF failAt \in {"data", "csv", "progress"}
                      THEN [ mem.progress EXCEPT !.errors = @ + 1 ]
                      ELSE mem.progress
       /\ scoutedData' = mem.scoutedData
       /\ processedUsers' = mem.processedUsers

\* a handler that found no mention saves nothing
NoSave(mem) ==
    /\ scoutedData' = mem.scoutedData
    /\ processedUsers' = mem.processedUsers
    /\ progress' = mem.progress
    /\ UNCHANGED <<dataFile, progressFile, adaptiveFile, savedState, saveSeq, fileStamp>>

\* what the handler call that ends here leaves known of itself; every handler
\* returns normally, whatever failed inside it
Returned(enriching, mentions, found, mem, log, queries, failAt, writes) ==
    lastCall' = [ enriching |-> enriching, mentions |-> mentions, found |-> found,
                  trace |-> mem.trace,
                  before |-> Mem(scoutedData, processedUsers, progress),
                  log |-> log, queries |-> queries,
                  failAt |-> failAt, writes |-> writes, outcome |-> "returned" ]

\* scoutFromSearch: the progress after scanning a page of tweets
scanned(prog, tweets) == [ prog EXCEPT !.totalScanned = @ + tweets ]

\* what one searchTweets call returns: a page of tweets with the mentions
\* scanMultipleTweets finds in them, or, when the request throws, no tweet
Page(tweets, mentions) == [failed |-> FALSE, tweets |-> tweets, mentions |-> mentions]
FailedCall == [failed |-> TRUE, tweets |-> 0, mentions |-> <<>>]

\* scoutFromSearch(query, maxResults), where the successive searchTweets calls
\* return pages: the mentions found, the tweets scanned and the calls made
RECURSIVE scoutFromSearch(_, _, _, _)
scoutFromSearch(acc, pages, processedCount, maxResults) ==
    IF processedCount >= maxResults THEN acc
    ELSE LET page == IF pages = <<>> THEN Page(0, <<>>) ELSE Head(pages)
             rest == IF pages = <<>> THEN <<>> ELSE Tail(pages)
             called == [ acc EXCEPT !.calls =
                           Append(@, IF page.failed THEN "failed" ELSE "ok") ]
             scannedPage == [ called EXCEPT !.mentions = @ \o page.mentions,
                                            !.tweets = @ + page.tweets ]
         IN IF page.tweets = 0 THEN called
            ELSE IF processedCount + page.tweets < maxResults /\ page.tweets = PageSize
                 THEN scoutFromSearch(scannedPage, rest,
                                      processedCount + page.tweets, maxResults)
                 ELSE scannedPage

noSearch == [mentions |-> <<>>, tweets |-> 0, calls |-> <<>>]

queryNumber(which, queries) ==
    CASE which = "first" -> Min(1, Len(queries))
      [] which = "last"  -> Len(queries)
      [] OTHER           -> 0

\* the searches of one cycle, for each query the pages its calls return: the
\* queries return no tweet, but for the one whose first call fails and the one
\* that returns result, on a page of its own or on a full page after which the
\* next call fails
searchOutcomes(queries, scenario, result) ==
    [ i \in 1..Len(queries) |->
        IF i = queryNumber(scenario[2], queries) THEN << FailedCall >>
        ELSE IF i = queryNumber(scenario[1], queries)
             THEN IF scenario[3] = "secondFails"
                  THEN << Page(PageSize, result), FailedCall >>
                  ELSE << Page(Len(result), result) >>
             ELSE << Page(0, <<>>) >> ]

\* the log entries of one query: its searchTweets calls
searchLog(query, made) == [ k \in 1..Len(made) |-> <<"search", query, made[k]>> ]

\* the loop of runScoutCycle from query number i on: scoutFromSearch, then
\* recordQueryResult with the number of mentions, then allMentions.push
RECURSIVE recordBatch_AbortOnFailure(_, _, _, _)
recordBatch_AbortOnFailure(state, batch, i, searches) ==
    IF i > Len(batch) THEN state
    ELSE LET search == scoutFromSearch(noSearch, searches[i], 0, CycleMaxResults)
         IN IF \E k \in 1..Len(search.calls) : search.calls[k] = "failed"
            THEN [ state EXCEPT !.log = @ \o searchLog(batch[i], search.calls) ]
            ELSE recordBatch_AbortOnFailure(
                [ searchContext |->
                      recordContext(state.searchContext, batch[i], Len(search.mentions)),
                  metrics |-> recordMetrics(state.metrics, batch[i], Len(search.mentions)),
                  allMentions |-> state.allMentions \o search.mentions,
                  progress |-> scanned(state.progress, search.tweets),
                  log |-> state.log \o searchLog(batch[i], search.calls)
                              \o << <<"record", batch[i], Len(search.mentions)>> >> ],
                batch, i + 1, searches)

RECURSIVE recordBatch(_, _, _, _)
recordBatch(state, batch, i, searches) ==
    IF i > Len(batch) THEN state
    ELSE LET search == scoutFromSearch(noSearch, searches[i], 0, CycleMaxResults)
         IN recordBatch(
                [ searchContext |->
                      recordContext(state.searchContext, batch[i], Len(search.mentions)),
                  metrics |-> recordMetrics(state.metrics, batch[i], Len(search.mentions)),
                  allMentions |-> state.allMentions \o search.mentions,
                  progress |-> scanned(state.progress, search.tweets),
                  log |-> state.log \o searchLog(batch[i], search.calls)
                              \o << <<"record", batch[i], Len(search.mentions)>> >> ],
                batch, i + 1, searches)

\* runScoutCycle()
RunScoutCycle ==
    /\ storeOps < MaxStoreOps
    /\ \E result \in ResultLists, found \in LookupWorlds, failAt \in FailPoints,
          scenario \in SearchScenarios :
         LET t == now + 1
             ctx == updateContext(searchContext, <<>>, t)
             strategy == determineSearchStrategy(ctx)
             queries == queriesFor(strategy, ctx)
             cycle == recordBatch(
                          [ searchContext |->
                                [ ctx EXCEPT !.previousQueries = @ \o queries ],
                            metrics |-> updateMetrics(metrics, <<>>),
                            allMentions |-> <<>>,
                            progress |-> progress,
                            log |-> <<>> ],
                          queries, 1, searchOutcomes(queries, scenario, result))
             uniqueMentions == deduplicateMentions(cycle.allMentions)
             mem0 == Mem(scoutedData, processedUsers, cycle.progress)
             mem == enrichWithUserData(mem0, uniqueMentions, found)
         IN /\ now' = t
            /\ callPrev' = searchContext.previousQueries
            /\ callCtx' = ctx
            /\ lastStrategy' = strategy
            /\ lastBatch' = queries
            /\ cursor' = Len(queries) + 1
            /\ searchContext' = cycle.searchContext
            /\ metrics' = cycle.metrics
            /\ IF Len(uniqueMentions) > 0
               THEN /\ SaveData(mem, cycle.searchContext, cycle.metrics, failAt)
                    /\ Returned(TRUE, uniqueMentions, found, mem, cycle.log,
                                queries, failAt, 1)
               ELSE /\ failAt = "none"
                    /\ NoSave(mem)
                    /\ Returned(FALSE, <<>>, {}, mem, cycle.log, queries, "none", 0)
    /\ calls' = calls + 1
    /\ justLoaded' = FALSE
    /\ saves' = saves
    /\ storeOps' = storeOps + 1
    /\ lastOp' = "runScoutCycle"
    /\ UNCHANGED <<schedVars, scanVars, rateVars, recordVars, cacheVars>>

\* scoutSpecificDomains(domains) for one domain
ScoutSpecificDomains ==
    /\ storeOps < MaxStoreOps
    /\ \E result \in ResultLists \cup {<<>>}, found \in LookupWorlds, failAt \in FailPoints :
         LET search == scoutFromSearch(noSearch, << Page(Len(result), result) >>, 0,
                                       DomainMaxResults)
             uniqueMentions == deduplicateMentions(search.mentions)
             mem0 == Mem(scoutedData, processedUsers, scanned(progress, search.tweets))
             mem == enrichWithUserData(mem0, uniqueMentions, found)
         IN IF Len(uniqueMentions) > 0
            THEN /\ SaveData(mem, searchContext, metrics, failAt)
                 /\ Returned(TRUE, uniqueMentions, found, mem, <<>>, <<>>, failAt, 1)
            ELSE /\ failAt = "none"
                 /\ NoSave(mem)
                 /\ Returned(FALSE, <<>>, {}, mem, <<>>, <<>>, "none", 0)
    /\ justLoaded' = FALSE
    /\ storeOps' = storeOps + 1
    /\ lastOp' = "scoutSpecificDomains"
    /\ UNCHANGED <<searchContext, metrics, now, callPrev, callCtx, lastStrategy,
                   lastBatch, cursor, calls, saves>>
    /\ UNCHANGED <<schedVars, scanVars, rateVars, recordVars, cacheVars>>

\* scoutFromUserList(usernames) for one username, whose timeline returns result
ScoutFromUserList ==
    /\ storeOps < MaxStoreOps
    /\ \E username \in Usernames, result \in ResultLists, found \in LookupWorlds,
          failAt \in FailPoints :
         LET allMentions ==
                 IF username \in found
                 THEN [ i \in 1..Len(result) |-> [ result[i] EXCEPT !.username = username ] ]
                 ELSE <<>>
             scoutedItems == [ i \in 1..Len(allMentions) |-> scoutedItem(allMentions[i]) ]
             mem == Mem(scoutedData \o scoutedItems, processedUsers,
                        [ progress EXCEPT !.domainsFound = @ + Len(scoutedItems),
                                          !.usersProcessed = @ + 1 ])
         IN IF Len(allMentions) > 0
            THEN /\ SaveData(mem, searchContext, metrics, failAt)
                 /\ Returned(FALSE, <<>>, found, mem, <<>>, <<>>, failAt, 1)
            ELSE /\ failAt = "none"
                 /\ NoSave(Mem(scoutedData, processedUsers, progress))
                 /\ Returned(FALSE, <<>>, found, mem, <<>>, <<>>, "none", 0)
    /\ justLoaded' = FALSE
    /\ storeOps' = storeOps + 1
    /\ lastOp' = "scoutFromUserList"
    /\ UNCHANGED <<searchContext, metrics, now, callPrev, callCtx, lastStrategy,
                   lastBatch, cursor, calls, saves>>
    /\ UNCHANGED <<schedVars, scanVars, rateVars, recordVars, cacheVars>>

\* a new process: the DataScout constructor, with loadExistingData() and
\* loadAdaptiveState()
Restart ==
    /\ lastOp # "restart"
    /\ scoutedData' = IF dataFile.exists THEN dataFile.records ELSE <<>>
    /\ processedUsers' =
           IF dataFile.exists
           THEN { dataFile.records[i].username : i \in 1..Len(dataFile.records) } \ {""}
           ELSE {}
    /\ progress' = IF progressFile.exists THEN progressFile.progress ELSE initialProgress
    /\ LET loaded == IF adaptiveFile.exists
                     THEN loadState(jsonRoundTrip(adaptiveFile.state))
                     ELSE [searchContext |-> initialContext(now), metrics |-> initialMetrics]
       IN /\ searchContext' = loaded.searchContext
          /\ metrics' = loaded.metrics
          /\ callPrev' = loaded.searchContext.previousQueries
          /\ callCtx' = loaded.searchContext
    /\ lastStrategy' = "none"
    /\ lastBatch' = <<>>
    /\ cursor' = 1
    /\ justLoaded' = adaptiveFile.exists
    /\ lastOp' = "restart"
    /\ lastCall' = noCall
    /\ UNCHANGED <<now, calls, adaptiveFile, savedState, saves, dataFile, progressFile,
                   fileStamp, saveSeq, storeOps>>
    /\ UNCHANGED <<schedVars, scanVars, rateVars, recordVars, cacheVars>>

StoreNext ==
    \/ RunScoutCycle
    \/ ScoutSpecificDomains
    \/ ScoutFromUserList
    \/ Restart

-----------------------------------------------------------------------------
(* ScoutAgent: continuous scouting.                                          *)
(* A cycle is one run of runScout: scoutRegisteredDomains issues its search  *)
(* queries one after the other, awaiting each.  A cycle in flight is a       *)
(* record: whether startContinuousScout awaits it (first) or a timer started *)
(* it, how many queries it has issued, whether stopScout was called during   *)
(* it, and how many queries it issued after that.                            *)

SchedInit ==
    /\ isRunning = FALSE
    /\ intervalId = 0
    /\ timers = {}
    /\ nextTimer = 1
    /\ cycles = <<>>
    /\ starts = 0
    /\ triggers = 0
    /\ lastEvent = "none"
    /\ hadError = FALSE

\* what a search call does: it returns, or it throws
SearchOutcomes == {"ok", "error"}

\* whether startContinuousScout reaches setInterval once the cycle it awaits
\* has ended with an error
timerCreated_Uncaught(first, outcome) == first /\ outcome = "ok"

\* whether startContinuousScout reaches setInterval once a cycle has ended:
\* runScout catches the error of its cycle, so that the await of the first
\* cycle always returns
timerCreated(first, outcome) == first

\* runScout past its isRunning check: scoutRegisteredDomains issues its first query
newCycle(first) == [first |-> first, issued |-> 1, stopped |-> FALSE, afterStop |-> 0]

\* startContinuousScout(intervalMinutes) up to its await of the first cycle
StartContinuousScout ==
    /\ starts < MaxStarts
    /\ starts' = starts + 1
    /\ IF isRunning
       THEN /\ lastEvent' = "startIgnored"
            /\ UNCHANGED <<isRunning, cycles, hadError>>
       ELSE /\ isRunning' = TRUE
            /\ cycles' = Append(cycles, newCycle(TRUE))
            /\ lastEvent' = "start"
            /\ hadError' = FALSE
    /\ UNCHANGED <<intervalId, timers, nextTimer, triggers>>
    /\ UNCHANGED <<engineVars, storeVars, scanVars, rateVars, recordVars, cacheVars>>

\* a repeating timer calls runScout
TimerFires ==
    /\ triggers < MaxTriggers
    /\ timers # {}
    /\ triggers' = triggers + 1
    /\ IF ~isRunning
       THEN /\ lastEvent' = "triggerDropped"
            /\ UNCHANGED cycles
       ELSE /\ cycles' = Append(cycles, newCycle(FALSE))
            /\ lastEvent' = "triggerStarted"
    /\ UNCHANGED <<isRunning, intervalId, timers, nextTimer, starts, hadError>>
    /\ UNCHANGED <<engineVars, storeVars, scanVars, rateVars, recordVars, cacheVars>>

\* the search call a cycle awaits returns or throws.  When it returns the cycle
\* goes on: the next query is issued, or the cycle ends.  When it throws,
\* runScout catches the error and the cycle ends.  After its first cycle
\* startContinuousScout calls setInterval
SearchCompletes ==
    /\ \E i \in 1..Len(cycles), outcome \in SearchOutcomes :
         LET c == cycles[i]
         IN IF outcome = "ok" /\ c.issued < CycleQueries
            THEN /\ cycles' = [ cycles EXCEPT ![i] =
                       [ c EXCEPT !.issued = @ + 1,
                                  !.afterStop = IF c.stopped THEN @ + 1 ELSE @ ] ]
                 /\ lastEvent' = "queryIssued"
                 /\ UNCHANGED <<intervalId, timers, nextTimer, hadError>>
            ELSE /\ cycles' = SubSeq(cycles, 1, i - 1) \o SubSeq(cycles, i + 1, Len(cycles))
                 /\ lastEvent' = IF outcome = "ok" THEN "cycleDone" ELSE "cycleFailed"
                 /\ hadError' = (hadError \/ (outcome = "error" /\ ~c.stopped))
                 /\ IF timerCreated(c.first, outcome)
                    THEN /\ intervalId' = nextTimer
                         /\ timers' = timers \cup {nextTimer}
                         /\ nextTimer' = nextTimer + 1
                    ELSE UNCHANGED <<intervalId, timers, nextTimer>>
    /\ UNCHANGED <<isRunning, starts, triggers>>
    /\ UNCHANGED <<engineVars, storeVars, scanVars, rateVars, recordVars, cacheVars>>

\* stopScout()
StopScout ==
    /\ timers' = IF intervalId # 0 THEN timers \ {intervalId} ELSE timers
    /\ intervalId' = 0
    /\ isRunning' = FALSE
    /\ cycles' = [ i \in 1..Len(cycles) |-> [ cycles[i] EXCEPT !.stopped = TRUE ] ]
    /\ lastEvent' = "stop"
    /\ hadError' = FALSE
    /\ UNCHANGED <<nextTimer, starts, triggers>>
    /\ UNCHANGED <<engineVars, storeVars, scanVars, rateVars, recordVars, cacheVars>>

SchedNext ==
    \/ StartContinuousScout
    \/ TimerFires
    \/ SearchCompletes
    \/ StopScout

-----------------------------------------------------------------------------
(* SkrDomainScanner: extractDomainsFromText and validateDomain.  A text is    *)
(* the sequence of its characters.                                            *)

\* the ASCII characters that the character class of domainPattern excludes
Excluded == {" ", "(", ")", "[", "]", "{", "}", "<", ">", ".", ",", ";", ":", "!", "?",
             "'", "\""}

Suffix == <<".", "s", "k", "r">>

\* text fragments, and the texts explored: two fragments each
Fragments == { <<>>, <<"a">>, <<"B">>, <<"@">>, <<"(">>, Suffix, <<".", "S", "K", "R">>,
               <<".", "s", "k">>, <<"r">> }
Texts == { f \o g : f \in Fragments, g \in Fragments }
Separators == { <<>>, <<" ">> }

\* String.prototype.toLowerCase, on the characters of the texts
lowerOf(c) ==
    CASE c = "B" -> "b"
      [] c = "S" -> "s"
      [] c = "K" -> "k"
      [] c = "R" -> "r"
      [] OTHER   -> c

toLowerCase(str) == [ i \in 1..Len(str) |-> lowerOf(str[i]) ]

startsWith(str, prefix) ==
    Len(str) >= Len(prefix) /\ SubSeq(str, 1, Len(prefix)) = prefix

endsWith(str, suffix) ==
    Len(str) >= Len(suffix) /\ SubSeq(str, Len(str) - Len(suffix) + 1, Len(str)) = suffix

\* /\.skr/i at position j of the text
suffixAt(text, j) ==
    j + 3 <= Len(text) /\ toLowerCase(SubSeq(text, j, j + 3)) = Suffix

\* the last position of the run of label characters that position i lies in
runEnd(text, i) ==
    CHOOSE j \in i..Len(text) :
        /\ \A k \in i..j : text[k] \notin Excluded
        /\ j = Len(text) \/ text[j + 1] \in Excluded

\* domainPattern.exec(text) with the global flag: the leftmost match at or after
\* lastIndex (counted from 0), and the lastIndex it leaves
exec_Sticky(text, from) ==
    IF /\ from + 1 <= Len(text)
       /\ text[from + 1] \notin Excluded
       /\ suffixAt(text, runEnd(text, from + 1) + 1)
    THEN [found |-> TRUE,
          match |-> SubSeq(text, from + 1, runEnd(text, from + 1) + 4),
          lastIndex |-> runEnd(text, from + 1) + 4]
    ELSE [found |-> FALSE, match |-> <<>>, lastIndex |-> 0]

exec(text, from) ==
    LET begins == { i \in (from + 1)..Len(text) :
                      text[i] \notin Excluded /\ suffixAt(text, runEnd(text, i) + 1) }
    IN IF begins = {}
       THEN [found |-> FALSE, match |-> <<>>, lastIndex |-> 0]
       ELSE LET i == CHOOSE x \in begins : \A y \in begins : x <= y
            IN [found |-> TRUE,
                match |-> SubSeq(text, i, runEnd(text, i) + 4),
                lastIndex |-> runEnd(text, i) + 4]

\* domain.replace(/^(https?:\/\/|\/\/|@)/, '')
cleanPrefix(domain) ==
    LET http == <<"h", "t", "t", "p", ":", "/", "/">>
        https == <<"h", "t", "t", "p", "s", ":", "/", "/">>
        drop(n) == SubSeq(domain, n + 1, Len(domain))
    IN CASE startsWith(domain, http)       -> drop(Len(http))
         [] startsWith(domain, https)      -> drop(Len(https))
         [] startsWith(domain, <<"/", "/">>) -> drop(2)
         [] startsWith(domain, <<"@">>)    -> drop(1)
         [] OTHER                          -> domain

\* domain.split('.')
RECURSIVE split(_)
split(str) ==
    IF \A i \in 1..Len(str) : str[i] # "."
    THEN << str >>
    ELSE LET dot == CHOOSE i \in 1..Len(str) :
                        str[i] = "." /\ \A k \in 1..(i - 1) : str[k] # "."
         IN << SubSeq(str, 1, dot - 1) >> \o split(SubSeq(str, dot + 1, Len(str)))

validateDomain(domain) ==
    /\ endsWith(domain, Suffix)
    /\ LET parts == split(domain)
       IN /\ Len(parts) >= 2
          /\ \A i \in 1..(Len(parts) - 1) :
                 /\ Len(parts[i]) # 0
                 /\ \A k \in 1..Len(parts[i]) : parts[i][k] \notin Excluded

\* whether extractDomainsFromText pushes cleanDomain
accepted_Unvalidated(domains, cleanDomain) ==
    ~includes(domains, cleanDomain)

accepted(domains, cleanDomain) ==
    ~includes(domains, cleanDomain) /\ validateDomain(cleanDomain)

\* the while loop of extractDomainsFromText
RECURSIVE extractLoop(_, _, _)
extractLoop(text, from, domains) ==
    LET match == exec(text, from)
        cleanDomain == toLowerCase(cleanPrefix(match.match))
    IN IF ~match.found
       THEN [domains |-> domains, lastIndex |-> match.lastIndex]
       ELSE extractLoop(text, match.lastIndex,
                        IF accepted(domains, cleanDomain)
                        THEN Append(domains, cleanDomain)
                        ELSE domains)

\* extractDomainsFromText(text): lastIndex is set to 0 first
extractDomainsFromText(text) == extractLoop(text, 0, <<>>)

\* the mentions handed to deduplicateMentions; tweetId tells them apart
DedupMentions ==
    { Mention(u, d, 0, ts) : u \in {"a", "a_b"}, d \in {"c.skr", "b_c.skr"},
                             ts \in {0, 1, 2} }

MentionLists ==
    UNION { [ 1..n -> DedupMentions ] : n \in 1..MaxMentions }

numbered(mentions) == [ i \in 1..Len(mentions) |-> [ mentions[i] EXCEPT !.tweetId = i ] ]

noScan == [op |-> "none", s |-> <<>>, sep |-> <<>>, t |-> <<>>, text |-> <<>>,
           domains |-> <<>>, again |-> FALSE, previous |-> <<>>,
           mentions |-> <<>>, unique |-> <<>>]

ScanInit ==
    /\ lastIndex = 0
    /\ scanCall = noScan

\* extractDomainsFromText(s + sep + t), the first call of the scanner
ExtractDomainsFromText ==
    /\ scanCall.op = "none"
    /\ \E s \in Texts, t \in Texts, sep \in Separators :
         LET text == s \o sep \o t
             result == extractDomainsFromText(text)
         IN /\ scanCall' = [ noScan EXCEPT !.op = "extractDomainsFromText",
                                            !.s = s, !.sep = sep, !.t = t,
                                            !.text = text,
                                            !.domains = result.domains ]
            /\ lastIndex' = result.lastIndex
    /\ UNCHANGED <<engineVars, schedVars, storeVars, rateVars, recordVars, cacheVars>>

\* extractDomainsFromText again, of the text of the last call
ExtractAgain ==
    /\ scanCall.op = "extractDomainsFromText"
    /\ LET result == extractDomainsFromText(scanCall.text)
       IN /\ scanCall' = [ scanCall EXCEPT !.again = TRUE,
                                            !.previous = scanCall.domains,
                                            !.domains = result.domains ]
          /\ lastIndex' = result.lastIndex
    /\ UNCHANGED <<engineVars, schedVars, storeVars, rateVars, recordVars, cacheVars>>

\* deduplicateMentions(mentions), the first call of the scanner
DeduplicateMentions ==
    /\ scanCall.op = "none"
    /\ \E list \in MentionLists :
         scanCall' = [ noScan EXCEPT !.op = "deduplicateMentions",
                                      !.mentions = numbered(list),
                                      !.unique = deduplicateMentions(numbered(list)) ]
    /\ UNCHANGED lastIndex
    /\ UNCHANGED <<engineVars, schedVars, storeVars, rateVars, recordVars, cacheVars>>

ScanNext ==
    \/ ExtractDomainsFromText
    \/ ExtractAgain
    \/ DeduplicateMentions

-----------------------------------------------------------------------------
(* TwitterClient.rateLimit *)

maxRequestsPerMinute == 30
WindowMs == 60000

\* the time that passes between two requests
Delays == {30000, 60000}

\* the calls of the record that returned after time t
RECURSIVE since(_, _)
since(record, t) ==
    IF record = <<>> THEN <<>>
    ELSE IF Head(record)[1] > t THEN record
         ELSE since(Tail(record), t)

\* one more call returned at time t
noted(record, t) ==
    LET recent == since(record, t - WindowMs)
    IN IF recent # <<>> /\ recent[Len(recent)][1] = t
       THEN [ recent EXCEPT ![Len(recent)] = <<t, @[2] + 1>> ]
       ELSE Append(recent, <<t, 1>>)

RECURSIVE total(_)
total(record) == IF record = <<>> THEN 0 ELSE Head(record)[2] + total(Tail(record))

RateInit ==
    /\ requestCount = 0
    /\ lastRequestTime = 0
    /\ clock = 0
    /\ proceeded = <<>>

\* rateLimit(), up to its return
RateLimit ==
    /\ clock <= MaxElapsed
    /\ LET timeDiff == clock - lastRequestTime
       IN IF timeDiff < WindowMs
          THEN IF requestCount + 1 >= maxRequestsPerMinute
               THEN /\ clock' = clock + (WindowMs - timeDiff)
                    /\ requestCount' = 0
                    /\ lastRequestTime' = clock'
               ELSE /\ requestCount' = requestCount + 1
                    /\ UNCHANGED <<clock, lastRequestTime>>
          ELSE /\ requestCount' = 1
               /\ lastRequestTime' = clock
               /\ UNCHANGED clock
    /\ proceeded' = noted(proceeded, clock')
    /\ UNCHANGED <<engineVars, schedVars, storeVars, scanVars, recordVars, cacheVars>>

\* time passes between two requests
Elapse ==
    /\ \E d \in Delays :
         /\ clock + d <= MaxElapsed
         /\ clock' = clock + d
    /\ proceeded' = since(proceeded, clock' - WindowMs)
    /\ UNCHANGED <<requestCount, lastRequestTime>>
    /\ UNCHANGED <<engineVars, schedVars, storeVars, scanVars, recordVars, cacheVars>>

RateNext ==
    \/ RateLimit
    \/ Elapse

-----------------------------------------------------------------------------
(* The engine that delegates to LocalIntelligentGenerator: its get*Queries    *)
(* methods call generateQueries, which selects a strategy of its own          *)

\* the outcomes of shuffleArray explored: the array as it is, and reversed
Shuffles ==
    { [ i \in 1..Len(diversifyQueries) |-> i ],
      [ i \in 1..Len(diversifyQueries) |-> Len(diversifyQueries) + 1 - i ] }

shuffleArray(arr, shuffle) == [ i \in 1..Len(arr) |-> arr[shuffle[i]] ]

\* LocalIntelligentGenerator.determineStrategy(context) at clock value t
determineStrategy(ctx, t) ==
    LET hoursSinceLastSuccess ==
            CASE ctx.lastSuccessfulSearch.kind = "Date"   -> t - ctx.lastSuccessfulSearch.time
              [] ctx.lastSuccessfulSearch.kind = "string" -> t - ctx.lastSuccessfulSearch.iso
              [] OTHER                                    -> 24
        successRate ==
            IF Len(ctx.previousQueries) > 0
            THEN <<Len(ctx.successfulQueries), Len(ctx.previousQueries)>>
            ELSE <<0, 1>>
    IN IF rateGT(successRate, 6, 10) /\ ctx.totalResults > 10 THEN "exploit"
       ELSE IF hoursSinceLastSuccess > 4 \/ rateLT(successRate, 2, 10) THEN "diversify"
       ELSE IF ctx.currentHour >= 9 /\ ctx.currentHour <= 12 THEN "peak-morning"
       ELSE IF ctx.currentHour >= 18 /\ ctx.currentHour <= 22 THEN "peak-evening"
       ELSE "balanced"

\* LocalIntelligentGenerator.getExploitQueries(context)
getExploitQueries(ctx) ==
    LET variations == exploitVariations(sliceFirst(ctx.successfulQueries, 3))
    IN IF Len(variations) > 0 THEN variations ELSE balancedQueries

\* the templates generateQueriesForStrategy takes for a strategy: those of
\* balanced for a strategy that has none
strategyQueries(strategy, ctx, shuffle) ==
    CASE strategy = "exploit"   -> getExploitQueries(ctx)
      [] strategy = "diversify" -> shuffleArray(diversifyQueries, shuffle)
      [] OTHER                  -> balancedQueries

\* LocalIntelligentGenerator.generateQueriesForStrategy(strategy, context)
generateQueriesForStrategy(strategy, ctx, shuffle) ==
    sliceFirst(filterUsedQueries(ctx, strategyQueries(strategy, ctx, shuffle)), BatchSize)

\* LocalIntelligentGenerator.generateQueries(context)
generateQueries(ctx, t, shuffle) ==
    generateQueriesForStrategy(determineStrategy(ctx, t), ctx, shuffle)

\* getNextSearchQueries(mentions) of the delegating engine, called once the
\* previous batch is recorded
GetNextSearchQueriesGenerated ==
    /\ calls < MaxGenCalls
    /\ cursor > Len(lastBatch)
    /\ \E mentions \in MentionInputs, adv \in Advances, shuffle \in Shuffles :
         LET t == now + adv
             ctx == updateContext(searchContext, mentions, t)
             strategy == determineSearchStrategy(ctx)
             batch == generateQueries(ctx, t, shuffle)
         IN /\ now' = t
            /\ callPrev' = searchContext.previousQueries
            /\ callCtx' = ctx
            /\ lastStrategy' = strategy
            /\ lastBatch' = batch
            /\ searchContext' = [ ctx EXCEPT !.previousQueries = @ \o batch ]
            /\ metrics' = updateMetrics(metrics, mentions)
    /\ cursor' = 1
    /\ calls' = calls + 1
    /\ justLoaded' = FALSE
    /\ UNCHANGED <<adaptiveFile, savedState, saves>>
    /\ UNCHANGED <<schedVars, storeVars, scanVars, rateVars, recordVars, cacheVars>>

GenNext ==
    \/ GetNextSearchQueriesGenerated
    \/ RecordQueryResult

-----------------------------------------------------------------------------
(* recordQueryResult as a public method: any query, any count, any number of  *)
(* times                                                                      *)

RecordedQueries == { diversifyQueries[1], diversifyQueries[2], balancedQueries[1] }
RecordedCounts == {0, 1, 2}

\* no recording yet
Unrecorded == -1

RecordInit ==
    recorded = [ q \in RecordedQueries |-> Unrecorded ]

\* recordQueryResult(query, resultCount)
RecordAnyQueryResult ==
    /\ \E query \in RecordedQueries, resultCount \in RecordedCounts :
         /\ searchContext' = recordContext(searchContext, query, resultCount)
         /\ metrics' = recordMetrics(metrics, query, resultCount)
         /\ recorded' = [ recorded EXCEPT ![query] = resultCount ]
    /\ justLoaded' = FALSE
    /\ UNCHANGED <<now, callPrev, callCtx, lastStrategy, lastBatch, cursor, calls,
                   adaptiveFile, savedState, saves>>
    /\ UNCHANGED <<schedVars, storeVars, scanVars, rateVars, cacheVars>>

RecordNext == RecordAnyQueryResult

\* queries that no batch contains before an exploit batch
UnissuedQueries == { <<".skr", "wallet">>, <<"new", ".skr">> }

\* recordQueryResult(query, resultCount) for a query that was not issued, called
\* before the queries of the last batch are recorded
RecordUnissuedQueryResult ==
    /\ cursor = 1
    /\ \E query \in UnissuedQueries, resultCount \in Yields \ {0} :
         /\ searchContext' = recordContext(searchContext, query, resultCount)
         /\ metrics' = recordMetrics(metrics, query, resultCount)
    /\ justLoaded' = FALSE
    /\ UNCHANGED <<now, callPrev, callCtx, lastStrategy, lastBatch, cursor, calls,
                   adaptiveFile, savedState, saves>>
    /\ UNCHANGED <<schedVars, storeVars, scanVars, rateVars, recordVars, cacheVars>>

ApiNext ==
    \/ GetNextSearchQueries(MaxApiCalls)
    \/ RecordQueryResult
    \/ RecordUnissuedQueryResult

-----------------------------------------------------------------------------
(* ScoutAgent.scoutRegisteredDomains and the saved domain dump *)

DomainCacheMinutes == 5

\* the two ScoutAgent classes: one searches with DomainScout, the other with
\* DomainSpecificSearch
Agents == {"DomainScout", "DomainSpecificSearch"}

\* minutes that pass between two calls
Pauses == {1, 5}

noScout == [agent |-> "none", recent |-> FALSE, fetches |-> 0]

CacheInit ==
    /\ domainFile = [exists |-> FALSE, mtime |-> 0]
    /\ minute = 0
    /\ lastScout = noScout

\* isDomainDumpRecent()
isDomainDumpRecent(file, t) ==
    IF ~file.exists THEN FALSE
    ELSE file.mtime > t - DomainCacheMinutes

\* dumpAllDomains(): fetchAllSkrDomains, then saveDomains unless the fetch threw
dumpAllDomains(file, t, fetchFails) ==
    IF fetchFails THEN file ELSE [exists |-> TRUE, mtime |-> t]

\* the registry fetches of scoutRegisteredDomains: one in dumpRegisteredDomains
\* when the dump is not recent, and one in the search of the registered domains
registryFetches(recent) == (IF recent THEN 0 ELSE 1) + 1

\* scoutRegisteredDomains()
ScoutRegisteredDomains ==
    /\ \E agent \in Agents, dumpFails \in BOOLEAN, searchFetchFails \in BOOLEAN :
         LET recent == isDomainDumpRecent(domainFile, minute)
             dumped == IF recent THEN domainFile
                       ELSE dumpAllDomains(domainFile, minute, dumpFails)
         IN /\ recent => ~dumpFails
            /\ domainFile' = IF agent = "DomainSpecificSearch"
                             THEN dumpAllDomains(dumped, minute, searchFetchFails)
                             ELSE dumped
            /\ lastScout' = [agent |-> agent, recent |-> recent,
                             fetches |-> registryFetches(recent)]
    /\ UNCHANGED minute
    /\ UNCHANGED <<engineVars, schedVars, storeVars, scanVars, rateVars, recordVars>>

\* time passes between two calls
MinutesPass ==
    /\ \E d \in Pauses :
         /\ minute + d <= MaxMinutes
         /\ minute' = minute + d
    /\ UNCHANGED <<domainFile, lastScout>>
    /\ UNCHANGED <<engineVars, schedVars, storeVars, scanVars, rateVars, recordVars>>

CacheNext ==
    \/ ScoutRegisteredDomains
    \/ MinutesPass

Init ==
    /\ EngineInit /\ SchedInit /\ StoreInit /\ ScanInit /\ RateInit
    /\ RecordInit /\ CacheInit

SpecSched == Init /\ [][SchedNext]_vars

-----------------------------------------------------------------------------
(* Specifications *)

EngineNext ==
    \/ GetNextSearchQueries(MaxCalls)
    \/ RecordQueryResult

Spec == Init /\ [][EngineNext]_vars

CkptNext ==
    \/ GetNextSearchQueries(MaxCkptCalls)
    \/ RecordQueryResult
    \/ SaveAdaptiveState
    \/ LoadAdaptiveState

SpecCkpt == Init /\ [][CkptNext]_vars

SpecStore == Init /\ [][StoreNext]_vars

SpecScanner == Init /\ [][ScanNext]_vars

SpecRate == Init /\ [][RateNext]_vars

SpecRecord == Init /\ [][RecordNext]_vars

SpecCache == Init /\ [][CacheNext]_vars

SpecApi == Init /\ [][ApiNext]_vars

SpecGen == Init /\ [][GenNext]_vars

-----------------------------------------------------------------------------
(* Properties of the strategy engine *)

Called == lastStrategy # "none"

\* the last 10 issued queries at selection time, and how many of them succeeded
RecentIssued == sliceLast(callCtx.previousQueries, 10)
RecentSucceeded ==
    Cardinality({ i \in 1..Len(RecentIssued) :
                    \E j \in 1..Len(callCtx.successfulQueries) :
                        callCtx.successfulQueries[j] = RecentIssued[i] })
\* recent success rate > 0.6, < 0.2 (an empty history has rate 0)
RateAbove06 == Len(RecentIssued) > 0 /\ 10 * RecentSucceeded > 6 * Len(RecentIssued)
RateBelow02 == Len(RecentIssued) = 0 \/ 10 * RecentSucceeded < 2 * Len(RecentIssued)
\* hours since the last success at selection time (no success yet counts as 24)
HoursSinceLastSuccess ==
    IF callCtx.lastSuccessfulSearch.kind = "Date"
    THEN now - callCtx.lastSuccessfulSearch.time
    ELSE 24
ExploitRule == RateAbove06 /\ callCtx.totalResults > 10
PeakHour == callCtx.currentHour \in (9..12) \cup (18..22)

\* C1: every query of the batch returned by getNextSearchQueries was absent from
\* previousQueries when the call began, and the batch is then appended to
\* previousQueries, so no query is issued in two cycles.
C1_BatchNotIssuedBefore ==
    Called =>
        /\ \A i \in 1..Len(lastBatch) : ~includes(callPrev, lastBatch[i])
        /\ searchContext.previousQueries = callPrev \o lastBatch

\* a later call whose strategy had candidates that were already issued
C1_Witness ==
    /\ Called
    /\ calls >= 2
    /\ lastBatch # <<>>
    /\ \E i \in 1..Len(candidatesFor(lastStrategy, callCtx)) :
           includes(callPrev, candidatesFor(lastStrategy, callCtx)[i])

\* C2: whenever the success rate over the last 10 issued queries is > 0.6 and
\* the cumulative result count is > 10, the selected strategy is exploit,
\* whatever the hour and the time since the last success.
C2_ExploitWhenSuccessful == (Called /\ ExploitRule) => lastStrategy = "exploit"

\* exploit selected more than 4 hours after the last success
C2_Witness ==
    /\ Called
    /\ ExploitRule
    /\ lastStrategy = "exploit"
    /\ callCtx.lastSuccessfulSearch.kind = "Date"
    /\ HoursSinceLastSuccess > 4

\* C3: when the exploit rule does not apply, diversify is selected exactly when
\* more than 4 hours have passed since the last success or the recent success
\* rate is < 0.2.
C3_DiversifyRule ==
    (Called /\ ~ExploitRule) =>
        IF callCtx.lastSuccessfulSearch.kind = "Date"
        THEN lastStrategy = "diversify" <=> (HoursSinceLastSuccess > 4 \/ RateBelow02)
        ELSE RateBelow02 => lastStrategy = "diversify"

\* C4: when neither the exploit rule nor the diversify rule applies and the
\* hour is in 9..12 or 18..22, a peak-hour strategy (trend-surf or
\* time-optimize) is selected and its queries are issued, not the balanced list.
C4_PeakHourStrategy ==
    ( /\ Called
      /\ ~ExploitRule
      /\ ~(HoursSinceLastSuccess > 4 \/ RateBelow02)
      /\ PeakHour )
    => /\ lastStrategy \in {"trend-surf", "time-optimize"}
       /\ \A i \in 1..Len(lastBatch) : ~includes(balancedQueries, lastBatch[i])

\* C5 as claimed: the returned batch is empty only if every balanced template has
\* been issued already.
C5_EmptyOnlyIfBalancedExhausted ==
    (Called /\ lastBatch = <<>>) =>
        \A i \in 1..Len(balancedQueries) : includes(callPrev, balancedQueries[i])

\* C5 as amended: the batch holds only fresh candidates of the selected strategy and
\* is empty exactly when every candidate of that strategy has been issued already;
\* there is no fallback to the balanced templates after filtering.
C5_EmptyIffStrategyExhausted ==
    Called =>
        /\ \A i \in 1..Len(lastBatch) :
               includes(candidatesFor(lastStrategy, callCtx), lastBatch[i])
        /\ lastBatch = <<>> <=>
               \A i \in 1..Len(candidatesFor(lastStrategy, callCtx)) :
                   includes(callPrev, candidatesFor(lastStrategy, callCtx)[i])

\* diversify exhausted, an empty batch, and balanced templates never issued
C5_Witness ==
    /\ Called
    /\ lastStrategy = "diversify"
    /\ lastBatch = <<>>
    /\ \E i \in 1..Len(balancedQueries) : ~includes(callPrev, balancedQueries[i])

\* C9: the state a restart loads from adaptive_state.json equals, field for
\* field, the in-memory state that was saved.
C9_RoundTrip == justLoaded => <<searchContext, metrics>> = savedState

\* a restart that loaded a last-success time and both maps with entries
C9_Witness ==
    /\ justLoaded
    /\ searchContext.lastSuccessfulSearch.kind = "Date"
    /\ Len(searchContext.successfulQueries) > 0
    /\ Len(metrics.queryPerformance) > 1
    /\ Len(metrics.domainPopularity) > 1

\* C23: whatever the strategy and the SearchContext, the batch returned by
\* getNextSearchQueries has at most 6 queries.
C23_BatchAtMostSix == Called => Len(lastBatch) <= BatchSize

\* an exploit batch cut down from more than 6 fresh variations
C23_Witness ==
    /\ Called
    /\ lastStrategy = "exploit"
    /\ Len(filterUsedQueries(callCtx, candidatesFor(lastStrategy, callCtx))) > BatchSize
    /\ Len(lastBatch) = BatchSize

\* no query occurs twice in the last batch or in previousQueries
NoDuplicateQueries ==
    /\ \A i \in 1..Len(lastBatch) : occurrences(lastBatch, lastBatch[i]) = 1
    /\ \A i \in 1..Len(searchContext.previousQueries) :
           occurrences(searchContext.previousQueries, searchContext.previousQueries[i]) = 1

\* every query recorded so far had been returned by getNextSearchQueries
OnlyIssuedRecorded ==
    /\ \A i \in 1..Len(searchContext.successfulQueries) :
           includes(searchContext.previousQueries, searchContext.successfulQueries[i])
    /\ \A i \in 1..Len(searchContext.failedQueries) :
           includes(searchContext.previousQueries, searchContext.failedQueries[i])

\* C26 as claimed: after any sequence of getNextSearchQueries and
\* recordQueryResult calls no returned batch contains a query twice and
\* previousQueries has no duplicate entry, exploit batches included.
C26_NoDuplicateQueries == NoDuplicateQueries

\* C26 as amended: the same, after any sequence of calls in which
\* recordQueryResult was only called with queries that getNextSearchQueries had
\* returned.
C26_NoDuplicateAmongIssued == OnlyIssuedRecorded => NoDuplicateQueries

\* an exploit batch of variations, when only issued queries were recorded
C26_Witness ==
    /\ Called
    /\ OnlyIssuedRecorded
    /\ lastStrategy = "exploit"
    /\ Len(lastBatch) = BatchSize
    /\ lastBatch[1] = Append(callCtx.successfulQueries[1], "wallet")

\* the templates the generator takes for the strategy it selects
generatedFamily ==
    LET strategy == determineStrategy(callCtx, now)
    IN IF strategy \in {"exploit", "diversify"} THEN strategy ELSE "balanced"

\* C27: in the engine that delegates to the generator, whenever
\* determineSearchStrategy selects exploit, diversify or balanced,
\* LocalIntelligentGenerator.determineStrategy selects the same strategy for that
\* context and the batch is made of that strategy's templates.
C27_GeneratorFollowsEngine ==
    Called =>
        /\ generatedFamily = lastStrategy
        /\ \A i \in 1..Len(lastBatch) :
               \E shuffle \in Shuffles :
                   includes(strategyQueries(lastStrategy, callCtx, shuffle), lastBatch[i])

\* C25: every runScoutCycle raises searchContext.totalResults by the mentions
\* the cycle found (at least by the distinct ones it kept) and, when it found
\* any, leaves lastSuccessfulSearch set.
C25_CycleFeedsContext ==
    [][ (lastOp' = "runScoutCycle" /\ calls' = calls + 1) =>
            /\ searchContext'.totalResults >=
                   searchContext.totalResults + Len(lastCall'.mentions)
            /\ Len(lastCall'.mentions) > 0 =>
                   searchContext'.lastSuccessfulSearch.kind # "null" ]_vars

-----------------------------------------------------------------------------
(* Properties of the scheduler *)

\* C6: a timer trigger that fires while a cycle is in flight starts no cycle.
C6_TriggerDroppedWhileInFlight ==
    [][ (triggers' = triggers + 1 /\ cycles # <<>>) => cycles' = cycles ]_vars

\* C7: after stopScout is called while a cycle is running, that cycle issues no
\* further search query.
C7_NoQueryAfterStop == \A i \in 1..Len(cycles) : cycles[i].afterStop = 0

\* the cycle startContinuousScout awaits before it calls setInterval is in flight
firstCycleInFlight == \E i \in 1..Len(cycles) : cycles[i].first /\ ~cycles[i].stopped

\* C21: a cycle that ends with an error does not stop the scheduler: while
\* stopScout is not called, the timer startContinuousScout creates after the
\* first cycle is active whatever the outcome of the cycles, and its next
\* trigger starts a cycle.
C21_ErrorDoesNotStopScheduler ==
    /\ []((isRunning /\ hadError /\ ~firstCycleInFlight) => intervalId \in timers)
    /\ [][ (triggers' = triggers + 1 /\ isRunning /\ hadError) =>
                /\ lastEvent' = "triggerStarted"
                /\ Len(cycles') = Len(cycles) + 1
                /\ isRunning' ]_vars

C21_Witness == lastEvent = "triggerStarted" /\ hadError /\ isRunning

\* C30: whatever the interleaving of startContinuousScout and stopScout, at
\* most one repeating timer is active, and none is once stopScout has returned.
C30_AtMostOneTimer ==
    /\ Cardinality(timers) <= 1
    /\ lastEvent = "stop" => timers = {}

-----------------------------------------------------------------------------
(* Properties of the record store *)

\* C8: a load observes records, progress counters and strategy state that all
\* belong to the same saveData call (or none to any).
C8_LoadSeesOneSave ==
    lastOp = "restart" =>
        /\ fileStamp["data"] = fileStamp["progress"]
        /\ fileStamp["data"] = fileStamp["adaptive"]

\* C10: scoutedData holds at most one record for each (username, domain) pair.
C10_OneRecordPerPair ==
    \A i, j \in 1..Len(scoutedData) :
        ( /\ scoutedData[i].username = scoutedData[j].username
          /\ scoutedData[i].domain = scoutedData[j].domain ) => i = j

\* the number of stored records for the (username, domain) pair of a mention
pairCount(data, mention) ==
    Cardinality({ k \in 1..Len(data) :
                    /\ data[k].username = mention.username
                    /\ data[k].domain = mention.domain })

\* C11: in enrichWithUserData, a mention whose (username, domain) already has a
\* record in the store is not looked up, its record is reused, and no record is
\* added for it.
C11_ExistingRecordReused ==
    lastCall.enriching =>
        \A i \in 1..Len(lastCall.trace) :
            LET mention == lastCall.trace[i].mention
            IN pairCount(lastCall.before.scoutedData, mention) > 0 =>
                   /\ lastCall.trace[i].lookups = 0
                   /\ lastCall.trace[i].outcome = "reused"
                   /\ pairCount(scoutedData, mention) =
                          pairCount(lastCall.before.scoutedData, mention)

\* C17: in enrichWithUserData, a mention whose user lookup finds nothing is looked
\* up once, produces no record, leaves the stored records of its pair and
\* processedUsers as they were, and every mention of the call is still handled:
\* the mentions of users the lookup finds are enriched or reused.
C17_FailedLookupSkipped ==
    lastCall.enriching =>
        /\ Len(lastCall.trace) = Len(lastCall.mentions)
        /\ \A i \in 1..Len(lastCall.trace) :
               LET entry == lastCall.trace[i]
               IN /\ entry.mention = lastCall.mentions[i]
                  /\ entry.mention.username \in lastCall.found =>
                         entry.outcome \in {"added", "reused"}
                  /\ (entry.mention.username \notin lastCall.found
                        /\ entry.outcome # "reused") =>
                         /\ entry.lookups = 1
                         /\ entry.outcome = "skipped"
                         /\ pairCount(scoutedData, entry.mention) =
                                pairCount(lastCall.before.scoutedData, entry.mention)
                         /\ entry.mention.username \in processedUsers <=>
                                entry.mention.username \in lastCall.before.processedUsers

\* a call in which a lookup found nothing and a later mention was enriched
C17_Witness ==
    /\ lastCall.enriching
    /\ \E i, j \in 1..Len(lastCall.trace) :
           /\ i < j
           /\ lastCall.trace[i].outcome = "skipped"
           /\ lastCall.trace[j].outcome = "added"
           /\ pairCount(scoutedData, lastCall.trace[j].mention) = 1

\* the recordQueryResult entries of the last cycle's log, in order
Recordings == SelectSeq(lastCall.log, LAMBDA e : e[1] = "record")

\* the number of recordQueryResult entries before position p of the log
RecordedBefore(p) == Cardinality({ k \in 1..(p - 1) : lastCall.log[k][1] = "record" })

\* every query is recorded once, in batch order, after its own searches and
\* before the searches of the next query
RecordedInOrder ==
    /\ Len(Recordings) = Len(lastCall.queries)
    /\ \A i \in 1..Len(lastCall.queries) :
           /\ Recordings[i][2] = lastCall.queries[i]
           /\ mapGet(metrics.queryPerformance, lastCall.queries[i]) = Recordings[i][3]
    /\ \A p \in 1..Len(lastCall.log) :
           /\ RecordedBefore(p) < Len(lastCall.queries)
           /\ lastCall.log[p][2] = lastCall.queries[RecordedBefore(p) + 1]
           /\ lastCall.log[p][1] = "record" => p > 1 /\ lastCall.log[p - 1][1] = "search"

\* C16 as claimed: in runScoutCycle every query of the batch is recorded once, in
\* batch order, before the next query's search; a query for which a search call
\* failed is recorded with 0 results, and the queries after it are still searched.
C16_FailedSearchRecordedZero ==
    lastOp = "runScoutCycle" =>
        /\ RecordedInOrder
        /\ \A p \in 1..Len(lastCall.log) :
               (lastCall.log[p][1] = "search" /\ lastCall.log[p][3] = "failed") =>
                   Recordings[RecordedBefore(p) + 1][3] = 0

\* C16 as amended: as above, but only a query whose first search call failed is
\* recorded with 0 results; when the call for a later page fails, the query is
\* recorded with the mentions of the pages read before.
C16_EveryQueryRecordedOnce ==
    lastOp = "runScoutCycle" =>
        /\ RecordedInOrder
        /\ \A p \in 1..Len(lastCall.log) :
               ( /\ lastCall.log[p][1] = "search" /\ lastCall.log[p][3] = "failed"
                 /\ (p = 1 \/ lastCall.log[p - 1][1] = "record") ) =>
                   Recordings[RecordedBefore(p) + 1][3] = 0

\* a cycle whose first search failed and whose last query returned mentions
C16_Witness ==
    /\ lastOp = "runScoutCycle"
    /\ Len(lastCall.queries) > 1
    /\ lastCall.log[1][3] = "failed"
    /\ lastCall.log[Len(lastCall.log)][3] > 0

\* C19: every completed runScoutCycle writes the checkpoint exactly once, so that
\* the persisted strategy state holds the queries issued and the results recorded
\* in that cycle, whether or not the cycle found any mention.
C19_CycleWritesCheckpointOnce ==
    (lastOp = "runScoutCycle" /\ lastCall.failAt = "none") =>
        /\ lastCall.writes = 1
        /\ adaptiveFile.exists
        /\ savedState = <<searchContext, metrics>>

\* C20: if writing the checkpoint fails during a cycle, the failure is reported
\* (the cycle ends with an error, or at least the failure is entered in
\* progress.errors), and the records computed in the cycle remain in scoutedData.
C20_SaveFailureReported ==
    (lastOp = "runScoutCycle" /\ lastCall.failAt # "none") =>
        /\ \/ lastCall.outcome = "threw"
           \/ progress.errors > lastCall.before.progress.errors
        /\ \A i \in 1..Len(lastCall.trace) :
               lastCall.trace[i].outcome = "added" =>
                   pairCount(scoutedData, lastCall.trace[i].mention) > 0

-----------------------------------------------------------------------------
(* Properties of the scanner *)

Deduplicated == scanCall.op = "deduplicateMentions"

samePair(m, n) == m.username = n.username /\ m.domain = n.domain

\* C12: deduplicateMentions returns exactly one mention for each (username,
\* domain) pair of the input, the one of greatest timestamp among those of the
\* pair, and every returned mention is an element of the input.
C12_OnePerPairLatest ==
    Deduplicated =>
        /\ \A i \in 1..Len(scanCall.mentions) :
               /\ Cardinality({ j \in 1..Len(scanCall.unique) :
                                  samePair(scanCall.unique[j], scanCall.mentions[i]) }) = 1
               /\ \A j \in 1..Len(scanCall.unique) :
                      samePair(scanCall.unique[j], scanCall.mentions[i]) =>
                          scanCall.unique[j].timestamp >= scanCall.mentions[i].timestamp
        /\ \A j \in 1..Len(scanCall.unique) : includes(scanCall.mentions, scanCall.unique[j])

\* C13: when the mentions of a key all have an absent (empty) timestamp, or all
\* the same timestamp, deduplicateMentions retains the first of them in input
\* order.
C13_TiesKeepFirstSeen ==
    Deduplicated =>
        \A i \in 1..Len(scanCall.mentions) :
            ( /\ \A k \in 1..(i - 1) :
                     dedupKey(scanCall.mentions[k]) # dedupKey(scanCall.mentions[i])
              /\ \A k \in 1..Len(scanCall.mentions) :
                     dedupKey(scanCall.mentions[k]) = dedupKey(scanCall.mentions[i]) =>
                         scanCall.mentions[k].timestamp = scanCall.mentions[i].timestamp )
            => includes(scanCall.unique, scanCall.mentions[i])

Extracted == scanCall.op = "extractDomainsFromText"

asSet(arr) == { arr[i] : i \in 1..Len(arr) }

\* C14: every string extractDomainsFromText returns ends with ".skr", has a
\* non-empty label before the suffix, is lowercase, satisfies validateDomain and
\* has no whitespace and no excluded bracket, quote or punctuation character in
\* a label.
C14_ExtractedDomainsWellFormed ==
    Extracted =>
        \A i \in 1..Len(scanCall.domains) :
            LET domain == scanCall.domains[i]
                labels == SubSeq(domain, 1, Len(domain) - Len(Suffix))
            IN /\ endsWith(domain, Suffix)
               /\ Len(labels) > 0
               /\ labels[1] # "."
               /\ toLowerCase(domain) = domain
               /\ validateDomain(domain)
               /\ \A k \in 1..Len(labels) : labels[k] \notin (Excluded \ {"."})

\* a text with a match that is rejected and a match in upper case that is kept
C14_Witness ==
    /\ Extracted
    /\ scanCall.text = <<"@">> \o Suffix \o <<" ", "B", ".", "S", "K", "R">>
    /\ scanCall.domains = << <<"b">> \o Suffix >>

\* C15 as claimed: the domains extracted from the concatenation of s and t are
\* those extracted from s together with those extracted from t, and extracting
\* the same text twice yields the same domains.
C15_ConcatenationIsUnion ==
    (Extracted /\ scanCall.sep = <<>>) =>
        /\ asSet(scanCall.domains) =
               asSet(extractDomainsFromText(scanCall.s).domains)
                   \cup asSet(extractDomainsFromText(scanCall.t).domains)
        /\ scanCall.again => scanCall.domains = scanCall.previous

\* C15 as amended: the domains extracted from s and t joined by whitespace are
\* those extracted from s together with those extracted from t, and extracting
\* the same text twice yields the same domains in the same order.
C15_SeparatedConcatenationIsUnion ==
    Extracted =>
        /\ scanCall.sep # <<>> =>
               asSet(scanCall.domains) =
                   asSet(extractDomainsFromText(scanCall.s).domains)
                       \cup asSet(extractDomainsFromText(scanCall.t).domains)
        /\ scanCall.again => scanCall.domains = scanCall.previous
        /\ lastIndex = 0

\* two texts with a domain each, joined by a space and extracted twice
C15_Witness ==
    /\ Extracted
    /\ scanCall.again
    /\ scanCall.sep # <<>>
    /\ Len(extractDomainsFromText(scanCall.s).domains) = 1
    /\ Len(extractDomainsFromText(scanCall.t).domains) = 1
    /\ Len(scanCall.domains) = 2

\* C29: deduplicateMentions never merges mentions of different (username,
\* domain) pairs: it returns as many mentions as the input has distinct pairs,
\* also when a username or a domain contains "_".
C29_OneMentionPerDistinctPair ==
    Deduplicated =>
        Len(scanCall.unique) =
            Cardinality({ <<scanCall.mentions[i].username, scanCall.mentions[i].domain>> :
                            i \in 1..Len(scanCall.mentions) })

-----------------------------------------------------------------------------
(* Properties of the rate limiter *)

\* C18: the number of requests rateLimit lets proceed within any window of 60
\* seconds never exceeds maxRequestsPerMinute.
C18_RollingWindowLimit ==
    total(proceeded) <= maxRequestsPerMinute

-----------------------------------------------------------------------------
(* Properties of recordQueryResult *)

\* C22: after any sequence of recordQueryResult calls each query occurs at most
\* once in successfulQueries and at most once in failedQueries, and
\* queryPerformance maps each recorded query to the count of its last recording.
C22_RecordingIsIdempotent ==
    \A q \in RecordedQueries :
        /\ occurrences(searchContext.successfulQueries, q) <= 1
        /\ occurrences(searchContext.failedQueries, q) <= 1
        /\ Cardinality({ i \in 1..Len(metrics.queryPerformance) :
                           metrics.queryPerformance[i][1] = q }) <= 1
        /\ recorded[q] # Unrecorded =>
               /\ includes(metrics.queryPerformance, <<q, recorded[q]>>)
               /\ recorded[q] > 0 => includes(searchContext.successfulQueries, q)
               /\ recorded[q] = 0 => includes(searchContext.failedQueries, q)

\* a query recorded with results more than once, the last time with another count
\* than the one that made it successful, and a query recorded without results
C22_Witness ==
    \E q \in RecordedQueries, r \in RecordedQueries :
        /\ includes(searchContext.successfulQueries, q)
        /\ includes(searchContext.failedQueries, q)
        /\ recorded[q] = 2
        /\ r # q
        /\ recorded[r] = 0

\* C28: after any sequence of recordQueryResult calls no query is both in
\* successfulQueries and in failedQueries.
C28_SuccessfulAndFailedDisjoint ==
    \A i \in 1..Len(searchContext.successfulQueries) :
        ~includes(searchContext.failedQueries, searchContext.successfulQueries[i])

-----------------------------------------------------------------------------
(* Properties of the domain dump cache *)

\* C24: when the saved domain dump is younger than domainCacheMinutes,
\* scoutRegisteredDomains makes no call to the domain registry; when it is older
\* or missing, the registry is fetched once.
C24_RecentDumpSkipsRegistry ==
    lastScout.agent # "none" =>
        lastScout.fetches = IF lastScout.recent THEN 0 ELSE 1

=============================================================================
